---- MODULE Spec2Model ----
(***************************************************************************)
(* A model of scSLAT/viz/multi_dataset.py: the colour assigner             *)
(* (random_color), the multi-layer scene builder (build_3D), the pairwise  *)
(* match renderers (match_3D_multi, match_3D_multi_error,                  *)
(* match_3D_celltype) and the Sankey renderers (Sankey, multi_Sankey).     *)
(*                                                                         *)
(* Python values are modelled as follows.  A str that the code indexes or  *)
(* whose characters matter is a sequence of one-character strings; a label *)
(* that is only concatenated and compared is a TLA+ string.  A list or a   *)
(* 1-D array is a sequence, read with the 0-based At(s, i).  None is the   *)
(* string "None" in a field that otherwise holds a string, and a record    *)
(* field `kind` tells the Python type where several are possible.  A       *)
(* raised exception is recorded by its class name in the `err` field of    *)
(* the call's result.                                                      *)
(***************************************************************************)
EXTENDS Integers, Sequences, FiniteSets, TLC

VARIABLES
    rng,        \* state of the process-wide generator of module `random`
    rc_calls,   \* the random_color calls made so far: [n, seed, before, kind, out]
    sk_in,      \* arguments of the Sankey / multi_Sankey call
    sk_out,     \* what that call built: labels, source, target, value
    m_in,       \* arguments of a match_3D_multi (or subclass) constructor
    m_obj,      \* the constructed object's attributes, or the exception
    m_draw,     \* what draw_3D / draw_lines of that object plotted
    b_in,       \* arguments of the build_3D constructor
    b_obj,      \* the build_3D object's attributes, or the exception
    b_draw      \* progress and plotted artefacts of build_3D.draw_3D

vars == <<rng, rc_calls, sk_in, sk_out, m_in, m_obj, m_draw, b_in, b_obj, b_draw>>

colorVars == <<rng, rc_calls>>
sankeyVars == <<sk_in, sk_out>>
matchVars == <<m_in, m_obj, m_draw>>
buildVars == <<b_in, b_obj, b_draw>>

(***************************************************************************)
(* Generic helpers for Python sequences.                                   *)
(***************************************************************************)
At(s, i) == s[i + 1]

Min2(a, b) == IF a < b THEN a ELSE b

SeqToSet(s) == {s[i] : i \in 1..Len(s)}

InSeq(x, s) == \E i \in 1..Len(s) : s[i] = x

\* All sequences over S of length exactly n.
SeqsOfLen(S, n) == [1..n -> S]

\* All sequences over S of length lo..hi.
SeqsUpTo(S, lo, hi) == UNION {SeqsOfLen(S, n) : n \in lo..hi}

\* Sequences of length n over 0..(total-1) without a repeated element.
InjSeqs(total, n) ==
    {s \in SeqsOfLen(0..(total - 1), n) :
        \A i, j \in 1..n : i # j => s[i] # s[j]}

(***************************************************************************)
(* random_color and the generator it seeds.                                *)
(*                                                                         *)
(* The Mersenne Twister of module `random` is abstracted to a generator    *)
(* with RngMod states: random.seed(s) puts it in a state that is a         *)
(* function of s alone, and every random.choice advances the state and     *)
(* picks the element the new state selects.                                *)
(***************************************************************************)
RngMod == 16
MaxN == 2
MaxSeed == 1
MaxCalls == 2

HexDigits == <<"0","1","2","3","4","5","6","7","8","9","A","B","C","D","E","F">>

RngStates == 0..(RngMod - 1)

RandomSeed(s) == s % RngMod

RngStep(st) == (5 * st + 3) % RngMod

\* random.choice(seq) from generator state st: the value and the new state.
RandomChoice(seq, st) ==
    LET st2 == RngStep(st)
    IN  [val |-> seq[(st2 % Len(seq)) + 1], st |-> st2]

\* ''.join([random.choice('0123456789ABCDEF') for j in range(6)]) after "#".
RECURSIVE HexString(_, _)
HexString(k, st) ==
    IF k = 0 THEN [val |-> <<>>, st |-> st]
    ELSE LET c    == RandomChoice(HexDigits, st)
             rest == HexString(k - 1, c.st)
         IN  [val |-> <<c.val>> \o rest.val, st |-> rest.st]

OneColor(st) ==
    LET h == HexString(6, st)
    IN  [val |-> <<"#">> \o h.val, st |-> h.st]

RECURSIVE ColorList(_, _)
ColorList(n, st) ==
    IF n = 0 THEN [val |-> <<>>, st |-> st]
    ELSE LET c    == OneColor(st)
             rest == ColorList(n - 1, c.st)
         IN  [val |-> <<c.val>> \o rest.val, st |-> rest.st]

\* random_color without its first statement: the generator is left as found.
random_color_unseeded(n, seed, st) ==
    IF n = 1 THEN LET c == OneColor(st)
                  IN  [kind |-> "str", val |-> c.val, st |-> c.st]
    ELSE IF n > 1 THEN LET c == ColorList(n, st)
                       IN  [kind |-> "list", val |-> c.val, st |-> c.st]
    ELSE [kind |-> "None", val |-> <<>>, st |-> st]

\* random_color(n, seed) called when the generator is in state st:
\* the returned value (a str for n = 1, a list for n > 1, None otherwise)
\* and the state the generator is left in.
random_color(n, seed, st) ==
    LET s0 == RandomSeed(seed)
    IN  IF n = 1 THEN LET c == OneColor(s0)
                      IN  [kind |-> "str", val |-> c.val, st |-> c.st]
        ELSE IF n > 1 THEN LET c == ColorList(n, s0)
                           IN  [kind |-> "list", val |-> c.val, st |-> c.st]
        ELSE [kind |-> "None", val |-> <<>>, st |-> s0]

CallRandomColor ==
    /\ Len(rc_calls) < MaxCalls
    /\ \E n \in 0..MaxN, seed \in 0..MaxSeed :
          LET r == random_color(n, seed, rng)
          IN  /\ rc_calls' = Append(rc_calls,
                     [n |-> n, seed |-> seed, before |-> rng,
                      kind |-> r.kind, out |-> r.val])
              /\ rng' = r.st
    /\ UNCHANGED <<sankeyVars, matchVars, buildVars>>

(***************************************************************************)
(* Sankey and multi_Sankey.                                                *)
(*                                                                         *)
(* A transition table is [index, columns, cells]: the row labels, the      *)
(* column labels and the rows of integer counts.                           *)
(***************************************************************************)
LinkThreshold == 10
CountSpan == 1

\* A cell of a table is held in halves (21 is 10.5) so that int() has
\* something to truncate: the integer counts within CountSpan of the
\* threshold, and the one non-integer value just above the threshold.
Counts ==
    {2 * c : c \in (LinkThreshold - CountSpan)..(LinkThreshold + CountSpan)}
    \cup {2 * LinkThreshold + 1}

DecDigits == <<"0","1","2","3","4","5","6","7","8","9">>

\* str(n) of an int 0 <= n < 100.
IntStr(n) ==
    IF n < 10 THEN DecDigits[n + 1]
    ELSE DecDigits[(n \div 10) + 1] \o DecDigits[(n % 10) + 1]

\* str(x) of a float with one decimal, x given in tenths: 115 is '11.5'.
FloatStr(t) == IntStr(t \div 10) \o "." \o IntStr(t % 10)

\* int(matching_table.iloc[i,j]) of a cell held in halves: truncation.
PyInt(v) == v \div 2

NRows(table) == Len(table.index)
NCols(table) == Len(table.columns)

\* dict(zip(labels, range(len(labels)))): a repeated key keeps its last index.
Label2Index(labels) ==
    [l \in SeqToSet(labels) |->
        CHOOSE i \in 0..(Len(labels) - 1) :
            /\ At(labels, i) = l
            /\ \A j \in (i + 1)..(Len(labels) - 1) : At(labels, j) # l]

\* The link test with the threshold itself included.
LinkCell_inclusive(count) == PyInt(count) >= LinkThreshold

\* if int(matching_table.iloc[i,j]) > 10
LinkCell(count) == PyInt(count) > LinkThreshold

NoLinks == [source |-> <<>>, target |-> <<>>, value |-> <<>>]

\* The double loop over the cells of one table, row by row: cell k (counted
\* from 1) is (row (k-1) div ncols, column (k-1) mod ncols).  A linked cell
\* appends to target, source and value.
RECURSIVE LinkLoop(_, _, _, _, _, _)
LinkLoop(table, qlab, rlab, l2i, k, acc) ==
    IF k > NRows(table) * NCols(table) THEN acc
    ELSE LET i == (k - 1) \div NCols(table)
             j == (k - 1) % NCols(table)
             v == At(At(table.cells, i), j)
         IN  IF LinkCell(v)
             THEN LinkLoop(table, qlab, rlab, l2i, k + 1,
                      [target |-> Append(acc.target, l2i[At(qlab, i)]),
                       source |-> Append(acc.source, l2i[At(rlab, j)]),
                       value  |-> Append(acc.value, PyInt(v))])
             ELSE LinkLoop(table, qlab, rlab, l2i, k + 1, acc)

SuffixAll(names, suffix) == [k \in 1..Len(names) |-> names[k] \o "_" \o suffix]

\* Sankey with the row (query) node appended to source and the column
\* (reference) node to target.
Sankey_rowsource(matching_table, prefix) ==
    LET label_ref   == SuffixAll(matching_table.columns, At(prefix, 0))
        label_query == SuffixAll(matching_table.index, At(prefix, 1))
        label_all   == label_query \o label_ref
        label2index == Label2Index(label_all)
        links       == LinkLoop(matching_table, label_query, label_ref,
                                label2index, 1, NoLinks)
    IN  [label |-> label_all, source |-> links.target,
         target |-> links.source, value |-> links.value]

\* Sankey(matching_table, prefix=prefix): the node labels and the link lists
\* handed to go.Sankey.
Sankey(matching_table, prefix) ==
    LET label_ref   == SuffixAll(matching_table.columns, At(prefix, 0))
        label_query == SuffixAll(matching_table.index, At(prefix, 1))
        label_all   == label_query \o label_ref
        label2index == Label2Index(label_all)
        links       == LinkLoop(matching_table, label_query, label_ref,
                                label2index, 1, NoLinks)
    IN  [label |-> label_all, source |-> links.source,
         target |-> links.target, value |-> links.value]

\* prefixes = [day + i for i in range(mappings)], in tenths.
Prefixes(day, n) == [k \in 1..n |-> day + 10 * (k - 1)]

\* The labels the first loop of multi_Sankey adds to the set label_all.
MultiLabelSet(tables, prefixes) ==
    UNION {SeqToSet(SuffixAll(tables[t].columns, FloatStr(prefixes[t])))
             \cup SeqToSet(SuffixAll(tables[t].index, FloatStr(prefixes[t + 1])))
           : t \in 1..Len(tables)}

\* The orders in which a set can be iterated.
Orders(S) ==
    {s \in SeqsOfLen(S, Cardinality(S)) : SeqToSet(s) = S}

\* The second loop of multi_Sankey over zip(matching_tables, prefixes).
RECURSIVE MultiLinks(_, _, _, _, _)
MultiLinks(tables, prefixes, l2i, t, acc) ==
    IF t > Len(tables) THEN acc
    ELSE MultiLinks(tables, prefixes, l2i, t + 1,
             LinkLoop(tables[t],
                      SuffixAll(tables[t].index, FloatStr(prefixes[t] + 10)),
                      SuffixAll(tables[t].columns, FloatStr(prefixes[t])),
                      l2i, 1, acc))

Repeat(x, n) == [k \in 1..n |-> x]

\* color = [random_color()]*rows of the first table, then for every table
\* [random_color()]*its columns; each random_color() reseeds with 0.
RECURSIVE MultiColor(_, _, _, _)
MultiColor(tables, t, acc, st) ==
    IF t > Len(tables) THEN [val |-> acc, st |-> st]
    ELSE LET c == random_color(1, 0, st)
         IN  MultiColor(tables, t + 1,
                        acc \o Repeat(c.val, NCols(tables[t])), c.st)

\* multi_Sankey(matching_tables, day=day) with color='random', where the set
\* label_all is iterated in the order `order`.
multi_Sankey(matching_tables, day, order, st) ==
    LET mappings    == Len(matching_tables) + 1
        prefixes    == Prefixes(day, mappings)
        label2index == Label2Index(order)
        links       == MultiLinks(matching_tables, prefixes, label2index, 1, NoLinks)
        first       == random_color(1, 0, st)
        color       == MultiColor(matching_tables, 1,
                           Repeat(first.val, NRows(matching_tables[1])), first.st)
    IN  [label |-> order, source |-> links.source, target |-> links.target,
         value |-> links.value, color |-> color.val, st |-> color.st]

\* The tables of the modelled calls: a 2 x 2 table for Sankey, and for
\* multi_Sankey a chain over three time points with 1, 2 and 1 categories.
SquareTables ==
    {[index |-> <<"T", "B">>, columns |-> <<"T", "B">>, cells |-> c] :
        c \in SeqsOfLen(SeqsOfLen(Counts, 2), 2)}

ChainTables ==
    {<<[index |-> <<"T", "B">>, columns |-> <<"T">>, cells |-> <<<<a>>, <<b>>>>],
       [index |-> <<"T">>, columns |-> <<"T", "B">>, cells |-> <<<<c, d>>>>]>> :
        a \in Counts, b \in Counts, c \in Counts, d \in Counts}

SankeyInputs ==
    {[fn |-> "Sankey", tables |-> <<t>>, prefix |-> p, day |-> 0] :
        t \in SquareTables, p \in {<<"E11.5", "E12.5">>, <<"E", "E">>}}
    \cup
    {[fn |-> "multi_Sankey", tables |-> ts, prefix |-> <<"", "">>, day |-> 115] :
        ts \in ChainTables}

NoSankey == [done |-> FALSE, label |-> <<>>, source |-> <<>>, target |-> <<>>,
             value |-> <<>>, color |-> <<>>]

IdleSankeyIn == [fn |-> "none", tables |-> <<>>, prefix |-> <<"", "">>, day |-> 0]

CallSankey ==
    /\ sk_in.fn = "Sankey"
    /\ ~sk_out.done
    /\ LET r == Sankey(sk_in.tables[1], sk_in.prefix)
       IN  sk_out' = [done |-> TRUE, label |-> r.label, source |-> r.source,
                      target |-> r.target, value |-> r.value, color |-> <<>>]
    /\ UNCHANGED <<sk_in, colorVars, matchVars, buildVars>>

CallMultiSankey ==
    /\ sk_in.fn = "multi_Sankey"
    /\ ~sk_out.done
    /\ \E order \in Orders(MultiLabelSet(sk_in.tables,
                               Prefixes(sk_in.day, Len(sk_in.tables) + 1))) :
          LET r == multi_Sankey(sk_in.tables, sk_in.day, order, rng)
          IN  /\ sk_out' = [done |-> TRUE, label |-> r.label, source |-> r.source,
                            target |-> r.target, value |-> r.value,
                            color |-> r.color]
              /\ rng' = r.st
    /\ UNCHANGED <<sk_in, rc_calls, matchVars, buildVars>>

(***************************************************************************)
(* match_3D_multi and its subclasses.                                      *)
(*                                                                         *)
(* A dataset is [cols, rows]: the column names of the DataFrame and its    *)
(* rows [index, x, y, celltype].  A coordinate is a fraction [n, d]; a raw *)
(* coordinate v is [n |-> v, d |-> 1] and NaN (0/0) is [n |-> 0, d |-> 0]. *)
(* The matching is the sequence of the columns of the 2 x K array, each    *)
(* column <<id in dataset_B, id in dataset_A>>.  The reliability argument  *)
(* is [kind, val] with kind "None", "list" or "ndarray".                   *)
(***************************************************************************)
MaxPairs == 2
MaxSub == 3
MaxCoord == 2

Raw(v) == [n |-> v, d |-> 1]
NaN == [n |-> 0, d |-> 0]

IsNaN(f) == f.d = 0
IsZero(f) == f.d # 0 /\ f.n = 0
IsOne(f) == f.d # 0 /\ f.n = f.d

\* np.min / np.max of a column of raw coordinates.
ColMin(rows, axis) ==
    CHOOSE v \in {rows[k][axis].n : k \in 1..Len(rows)} :
        \A k \in 1..Len(rows) : v <= rows[k][axis].n
ColMax(rows, axis) ==
    CHOOSE v \in {rows[k][axis].n : k \in 1..Len(rows)} :
        \A k \in 1..Len(rows) : v >= rows[k][axis].n

\* (v - min) / (max - min); a constant column gives 0/0.
MinMax(v, mn, mx) ==
    IF mx = mn THEN NaN ELSE [n |-> v - mn, d |-> mx - mn]

\* 1 - v
OneMinus(f) == IF IsNaN(f) THEN NaN ELSE [n |-> f.d - f.n, d |-> f.d]

\* dataset[axis] = (dataset[axis] - np.min(...)) / (np.max(...) - np.min(...)),
\* then dataset[axis] = 1 - dataset[axis] when the axis is in rotate[i].
ScaleAxis(rows, axis, flip) ==
    LET mn == ColMin(rows, axis)
        mx == ColMax(rows, axis)
    IN  [k \in 1..Len(rows) |->
            LET f == MinMax(rows[k][axis].n, mn, mx)
            IN  [rows[k] EXCEPT ![axis] = IF flip THEN OneMinus(f) ELSE f]]

\* rotate is [none, axes]: axes[i] is the set of axis letters in rotate[i].
Flips(rotate, i, axis) == ~rotate.none /\ axis \in At(rotate.axes, i)

\* The loop over ['x','y'] for dataset number i.
ScaleDataset(ds, rotate, i) ==
    LET rx == ScaleAxis(ds.rows, "x", Flips(rotate, i, "x"))
        ry == ScaleAxis(rx, "y", Flips(rotate, i, "y"))
    IN  [ds EXCEPT !.rows = ry]

\* self.dataset_B[['x','y']] = self.dataset_B[['y','x']]
ExchangeXY(ds) ==
    [ds EXCEPT !.rows =
        [k \in 1..Len(ds.rows) |->
            [ds.rows[k] EXCEPT !.x = ds.rows[k].y, !.y = ds.rows[k].x]]]

\* set(dataset[meta])
Categories(ds) == {ds.rows[k].celltype : k \in 1..Len(ds.rows)}

\* dataset.loc[dataset['index']==id, col] for the one row with that id.
RowOf(ds, id) == CHOOSE k \in 1..Len(ds.rows) : ds.rows[k].index = id
CatOf(ds, id) == ds.rows[RowOf(ds, id)].celltype

\* np.random.choice(total, k) drawn with replacement.
np_random_choice_replace(total, k) ==
    IF k < 0 \/ (total = 0 /\ k > 0) THEN {}
    ELSE SeqsOfLen(0..(total - 1), k)

\* np.random.choice(total, k, replace=False): the arrays it can return; none
\* when it raises ValueError (k negative, or more than total).
np_random_choice(total, k) ==
    IF k < 0 \/ k > total THEN {} ELSE InjSeqs(total, k)

\* matching[:, sel]
TakeColumns(matching, sel) == [k \in 1..Len(sel) |-> At(matching, sel[k])]

\* subsample_size if matching.shape[1] > subsample_size else matching.shape[1]
SubsampleCount(total, subsample_size) ==
    IF total > subsample_size THEN subsample_size ELSE total

RequiredCols == {"index", "x", "y"}

Modes == {"high_true", "low_true", "high_false", "low_false"}

\* 'false' in mode, 'low' in mode
ModeHasFalse(mode) == mode \in {"high_false", "low_false"}
ModeHasLow(mode) == mode \in {"low_true", "low_false"}

Failed(e) ==
    [state |-> "failed", err |-> e, dataset_A |-> <<>>, dataset_B |-> <<>>,
     matching |-> <<>>, sel |-> <<>>, has_celltypes |-> FALSE, celltypes |-> {}]

NewObj == [Failed("None") EXCEPT !.state = "new"]

\* match_3D_multi.__init__ with `sel` the array np.random.choice returned:
\* the attributes of the object, or the exception raised.
MatchInit(inp, sel) ==
    LET scale == IF ~inp.rotate.none THEN TRUE ELSE inp.scale_coordinate
        A1 == IF scale THEN ScaleDataset(inp.A, inp.rotate, 0) ELSE inp.A
        B1 == IF scale THEN ScaleDataset(inp.B, inp.rotate, 1) ELSE inp.B
        B2 == IF inp.exchange_xy THEN ExchangeXY(B1) ELSE B1
    IN  IF ~(RequiredCols \subseteq inp.A.cols) \/ ~(RequiredCols \subseteq inp.B.cols)
        THEN Failed("AssertionError")
        ELSE IF inp.meta # "None" /\ ~(inp.meta \in inp.A.cols /\ inp.meta \in inp.B.cols)
        THEN Failed("KeyError")
        ELSE [state |-> "ok", err |-> "None",
              dataset_A |-> A1.rows, dataset_B |-> B2.rows,
              matching |-> TakeColumns(inp.matching, sel), sel |-> sel,
              has_celltypes |-> inp.meta # "None",
              celltypes |-> IF inp.meta # "None"
                            THEN Categories(inp.A) \cup Categories(inp.B)
                            ELSE {}]

\* set(highlight_celltype[k]).issubset(set(self.celltypes))
HighlightOk(hl, celltypes) == SeqToSet(hl) \subseteq celltypes

\* The statements of a subclass __init__ after super().__init__.
SubclassInit(inp, obj) ==
    IF obj.state # "ok" THEN obj
    ELSE IF inp.cls = "match_3D_multi_error"
    THEN IF inp.mode \in Modes THEN obj ELSE Failed("AssertionError")
    ELSE IF inp.cls = "match_3D_celltype"
    THEN IF ~obj.has_celltypes THEN Failed("AttributeError")
         ELSE IF /\ HighlightOk(At(inp.highlight_celltype, 0), obj.celltypes)
                 /\ HighlightOk(At(inp.highlight_celltype, 1), obj.celltypes)
              THEN obj
              ELSE Failed("AssertionError")
    ELSE obj

\* Colour strings of the renderers, as sequences of characters.
ColorRight == <<"#","a","d","e","8","f","4">>
ColorWrong == <<"#","f","f","a","f","c","c">>
ColorLowRight == <<"#","5","8","8","1","5","7">>
ColorHighWrong == <<"#","f","f","b","7","0","3">>
Grey == <<"g","r","e","y">>
Red == <<"r","e","d">>
Reds == <<"R","e","d","s">>

HexChars == SeqToSet(HexDigits) \cup {"a", "b", "c", "d", "e", "f"}

\* A str that is '#' followed by 6 hexadecimal digits.
IsHexColor(c) ==
    /\ Len(c) = 7
    /\ c[1] = "#"
    /\ \A k \in 2..7 : c[k] \in HexChars

\* A colour matplotlib accepts, among the values the code passes; scatter
\* and plot raise ValueError for any other.
IsColor(c) == c \in {Red, Grey} \/ IsHexColor(c)

\* bool(self.conf): "True", "False", or the ValueError numpy raises for an
\* array with more than one element.
Truthy(conf) ==
    IF conf.kind = "None" THEN "False"
    ELSE IF conf.kind = "list" THEN (IF Len(conf.val) > 0 THEN "True" ELSE "False")
    ELSE IF Len(conf.val) = 0 THEN "False"
    ELSE IF Len(conf.val) = 1 THEN (IF conf.val[1] THEN "True" ELSE "False")
    ELSE "ValueError"

\* The test comparing the categories of the two endpoints of a pair.
SameCategory(obj, pair) ==
    CatOf([rows |-> obj.dataset_B], At(pair, 0))
        = CatOf([rows |-> obj.dataset_A], At(pair, 1))

\* The colour match_3D_multi.draw_lines computes for pair i before the
\* show_error switch: [err, bound, color]; bound tells whether the local
\* `color` was assigned.
BaseColor(inp, obj, i) ==
    LET pair == At(obj.matching, i)
        c0   == IF SameCategory(obj, pair) THEN ColorRight ELSE ColorWrong
        t    == Truthy(inp.reliability)
    IN  IF inp.meta = "None" THEN [err |-> "None", bound |-> FALSE, color |-> Grey]
        ELSE IF t = "ValueError" THEN [err |-> "ValueError", bound |-> TRUE, color |-> c0]
        ELSE IF t = "False" THEN [err |-> "None", bound |-> TRUE, color |-> c0]
        ELSE IF i >= Len(inp.reliability.val)
        THEN [err |-> "IndexError", bound |-> TRUE, color |-> c0]
        ELSE IF c0 = ColorRight /\ ~At(inp.reliability.val, i)
        THEN [err |-> "None", bound |-> TRUE, color |-> ColorLowRight]
        ELSE IF c0 = ColorWrong /\ At(inp.reliability.val, i)
        THEN [err |-> "None", bound |-> TRUE, color |-> ColorHighWrong]
        ELSE [err |-> "None", bound |-> TRUE, color |-> c0]

NoLines == [lines |-> <<>>, markers |-> <<>>, err |-> "None"]

\* match_3D_multi.draw_lines from pair i on.
RECURSIVE BaseLines(_, _, _, _, _, _)
BaseLines(inp, obj, show_error, default_color, i, acc) ==
    IF i >= Len(obj.matching) THEN acc
    ELSE LET c == BaseColor(inp, obj, i)
         IN  IF c.err # "None" THEN [acc EXCEPT !.err = c.err]
             ELSE IF show_error /\ ~c.bound
             THEN [acc EXCEPT !.err = "UnboundLocalError"]
             ELSE BaseLines(inp, obj, show_error, default_color, i + 1,
                      [acc EXCEPT !.lines = Append(@,
                          [i |-> i, pair |-> At(obj.matching, i),
                           color |-> IF show_error THEN c.color ELSE default_color])])

\* match_3D_multi_error.draw_lines from pair i on.
RECURSIVE ErrorLines(_, _, _, _)
ErrorLines(inp, obj, i, acc) ==
    IF i >= Len(obj.matching) THEN acc
    ELSE LET pair == At(obj.matching, i)
             drawn == [acc EXCEPT
                         !.lines = Append(@, [i |-> i, pair |-> pair,
                                              color |-> inp.highlight_color]),
                         !.markers = @ \o <<[z |-> 0, id |-> At(pair, 1)],
                                             [z |-> 1, id |-> At(pair, 0)]>>]
         IN  IF SameCategory(obj, pair) /\ ModeHasFalse(inp.mode)
             THEN ErrorLines(inp, obj, i + 1, acc)
             ELSE IF inp.reliability.kind # "None" /\ ModeHasLow(inp.mode)
             THEN IF i >= Len(inp.reliability.val)
                  THEN [acc EXCEPT !.err = "IndexError"]
                  ELSE IF ~At(inp.reliability.val, i)
                  THEN ErrorLines(inp, obj, i + 1, acc)
                  ELSE ErrorLines(inp, obj, i + 1, drawn)
             ELSE ErrorLines(inp, obj, i + 1, drawn)

\* list.index(x)
IndexOf(seq, x) ==
    CHOOSE i \in 0..(Len(seq) - 1) :
        At(seq, i) = x /\ \A j \in 0..(i - 1) : At(seq, j) # x

\* color[i] of what random_color returned: an element of the list, or one
\* character of the str.
ColorAt(color, i) ==
    IF color.kind = "str" THEN <<At(color.val, i)>> ELSE At(color.val, i)

\* match_3D_celltype.draw_lines from pair i on, with the palette cmap.
RECURSIVE CelltypeLines(_, _, _, _, _, _, _)
CelltypeLines(inp, obj, cmap, show_error, default_color, i, acc) ==
    IF i >= Len(obj.matching) THEN acc
    ELSE LET pair == At(obj.matching, i)
             hl0  == At(inp.highlight_celltype, 0)
             hl1  == At(inp.highlight_celltype, 1)
             a    == CatOf([rows |-> obj.dataset_A], At(pair, 1))
             b    == CatOf([rows |-> obj.dataset_B], At(pair, 0))
             color_index == IF Len(hl0) >= Len(hl1) THEN hl0 ELSE hl1
             color == IF Len(hl0) >= Len(hl1)
                      THEN ColorAt(cmap, IndexOf(color_index, a))
                      ELSE ColorAt(cmap, IndexOf(color_index, b))
         IN  IF ~InSeq(a, hl0) \/ ~InSeq(b, hl1)
             THEN CelltypeLines(inp, obj, cmap, show_error, default_color, i + 1, acc)
             ELSE IF show_error /\ ~IsColor(color)
             THEN [acc EXCEPT
                     !.err = "ValueError",
                     !.markers = IF inp.highlight_cell
                                 THEN @ \o <<[z |-> 0, id |-> At(pair, 1)],
                                             [z |-> 1, id |-> At(pair, 0)]>>
                                 ELSE @]
             ELSE CelltypeLines(inp, obj, cmap, show_error, default_color, i + 1,
                      [acc EXCEPT
                         !.lines = Append(@, [i |-> i, pair |-> pair,
                             color |-> IF show_error THEN color ELSE default_color]),
                         !.markers = IF inp.highlight_cell
                                     THEN @ \o <<[z |-> 0, id |-> At(pair, 1)],
                                                 [z |-> 1, id |-> At(pair, 0)]>>
                                     ELSE @])

\* The palette of match_3D_celltype.draw_lines: the caller's list when it is
\* long enough, else random_color(len(color_index)).
CelltypePalette(inp, st) ==
    LET hl0 == At(inp.highlight_celltype, 0)
        hl1 == At(inp.highlight_celltype, 1)
        color_index == IF Len(hl0) >= Len(hl1) THEN hl0 ELSE hl1
    IN  IF inp.highlight_line.kind = "list"
           /\ Len(inp.highlight_line.val) >= Len(color_index)
        THEN [kind |-> "list", val |-> inp.highlight_line.val, st |-> st]
        ELSE random_color(Len(color_index), 0, st)

\* self.draw_lines(ax, show_error, line_color, ...) of the object's class:
\* the lines and markers plotted, the exception if one ends the call, and
\* the state the `random` generator is left in.
DrawLines(inp, obj, show_error, default_color, st) ==
    IF inp.cls = "match_3D_multi_error"
    THEN [out |-> ErrorLines(inp, obj, 0, NoLines), st |-> st]
    ELSE IF inp.cls = "match_3D_celltype"
    THEN LET cmap == CelltypePalette(inp, st)
         IN  [out |-> CelltypeLines(inp, obj, cmap, show_error, default_color,
                                    0, NoLines),
              st |-> cmap.st]
    ELSE [out |-> BaseLines(inp, obj, show_error, default_color, 0, NoLines),
          st |-> st]

\* c_map[celltype] = color[i] for i, celltype in enumerate(self.celltypes),
\* the set being iterated in the order `order`.
ColorMap(order, color) ==
    [ct \in SeqToSet(order) |-> ColorAt(color, IndexOf(order, ct))]

\* dataset[self.expr] of plt.Normalize(...) raises KeyError for dataset i
\* (0 is dataset_A, 1 is dataset_B) when meta and expr are set and the
\* frame has no such column.
ExprKeyError(inp, i) ==
    /\ inp.meta # "None"
    /\ inp.expr # "None"
    /\ inp.expr \notin (IF i = 0 THEN inp.A.cols ELSE inp.B.cols)

\* The number of datasets the scatter loop gets through: it stops at the
\* first one whose expr column is missing.
DatasetsScattered(inp) ==
    IF ExprKeyError(inp, 0) THEN 0 ELSE IF ExprKeyError(inp, 1) THEN 1 ELSE 2

\* The scatter calls of match_3D_multi.draw_3D: one per dataset and cell
\* type when meta is set (coloured by c_map, or through cmap when expr is
\* set), else one per dataset.
MatchScatter(inp, order, c_map) ==
    IF inp.meta # "None"
    THEN [k \in 1..(DatasetsScattered(inp) * Len(order)) |->
            LET i  == (k - 1) \div Len(order)
                ct == At(order, (k - 1) % Len(order))
            IN  [z |-> i, celltype |-> ct,
                 c |-> IF inp.expr # "None" THEN Reds ELSE c_map[ct]]]
    ELSE [k \in 1..2 |-> [z |-> k - 1, celltype |-> "None", c |-> <<>>]]

\* call tells which method ran: "draw_3D", or "draw_lines" called directly.
NoDraw == [done |-> FALSE, call |-> "None", show_error |-> FALSE, c_map |-> <<>>,
           scatter |-> <<>>, lines |-> <<>>, markers |-> <<>>, err |-> "None"]

\* The arguments of the modelled constructor calls.  Both datasets have two
\* cells, ids 0 and 1, of categories T and B unless a family varies them.
AllCols == {"index", "x", "y", "celltype"}

Dataset(cats, xs, ys) ==
    [cols |-> AllCols,
     rows |-> [k \in 1..2 |-> [index |-> k - 1, x |-> Raw(xs[k]), y |-> Raw(ys[k]),
                               celltype |-> cats[k]]]]

PairSet == {<<b, a>> : b \in 0..1, a \in 0..1}

NoReliability == [kind |-> "None", val |-> <<>>]

\* reliability=None, or one flag per pair of the matching in a list or array.
Reliabilities(K) ==
    {NoReliability}
    \cup {[kind |-> kd, val |-> v] : kd \in {"list", "ndarray"}, v \in SeqsOfLen(BOOLEAN, K)}

NoRotate == [none |-> TRUE, axes |-> <<{}, {}>>]

DefaultMatchIn ==
    [cls |-> "match_3D_multi",
     A |-> Dataset(<<"T", "B">>, <<0, 2>>, <<1, 0>>),
     B |-> Dataset(<<"T", "B">>, <<2, 1>>, <<0, 2>>),
     matching |-> <<<<0, 0>>, <<1, 0>>>>,
     meta |-> "None", expr |-> "None", subsample_size |-> MaxSub,
     reliability |-> NoReliability,
     scale_coordinate |-> FALSE, rotate |-> NoRotate, exchange_xy |-> FALSE,
     mode |-> "high_true", highlight_color |-> Red,
     highlight_celltype |-> <<<<>>, <<>>>>,
     highlight_line |-> [kind |-> "str", val |-> Red],
     highlight_cell |-> FALSE]

Matchings == SeqsUpTo(PairSet, 0, MaxPairs)

\* match_3D_multi with and without annotation and reliability, and with an
\* expression column named that a dataset holds or lacks.
BaseLineInputs ==
    UNION {{[DefaultMatchIn EXCEPT !.matching = m, !.reliability = r, !.meta = mt, !.expr = e] :
              r \in Reliabilities(Len(m)), mt \in {"None", "celltype"},
              e \in {"None"}} : m \in Matchings}
    \cup {[DefaultMatchIn EXCEPT !.meta = "celltype", !.expr = "gene",
                                 !.A = [@ EXCEPT !.cols = @ \cup ga],
                                 !.B = [@ EXCEPT !.cols = @ \cup gb]] :
              ga \in {{}, {"gene"}}, gb \in {{}, {"gene"}}}

\* match_3D_multi_error in each mode, and with a mode it rejects.
ErrorLineInputs ==
    UNION {{[DefaultMatchIn EXCEPT !.cls = "match_3D_multi_error", !.matching = m,
                                   !.reliability = r, !.mode = md, !.meta = "celltype"] :
              r \in Reliabilities(Len(m)), md \in Modes} : m \in Matchings}
    \cup {[DefaultMatchIn EXCEPT !.cls = "match_3D_multi_error", !.mode = "all"]}

\* Subsample sizes below, at and above the number of pairs.
SubsampleInputs ==
    {[DefaultMatchIn EXCEPT !.matching = m, !.subsample_size = n, !.cls = c] :
        m \in Matchings, n \in 0..MaxSub,
        c \in {"match_3D_multi", "match_3D_multi_error"}}

Rotations ==
    {NoRotate, [none |-> FALSE, axes |-> <<{"x"}, {"y"}>>],
     [none |-> FALSE, axes |-> <<{"x", "y"}, {}>>]}

\* Coordinates of every shape, constant columns included, with and without
\* scaling, rotation and the x/y exchange.
ScaleInputs ==
    {[DefaultMatchIn EXCEPT !.A = Dataset(<<"T", "B">>, xs, ys),
                            !.B = Dataset(<<"T", "B">>, <<ys[2], ys[1]>>, xs),
                            !.scale_coordinate = sc, !.rotate = rot,
                            !.exchange_xy = ex] :
        xs \in SeqsOfLen(0..MaxCoord, 2), ys \in SeqsOfLen(0..MaxCoord, 2),
        sc \in BOOLEAN, rot \in Rotations, ex \in BOOLEAN}

HighlightLists ==
    {<<>>, <<"T">>, <<"B">>, <<"T", "B">>, <<"NeuronX">>, <<"T", "NeuronX">>}

\* match_3D_celltype with highlight lists inside and outside the observed
\* categories, with and without an annotation column.
CelltypeInputs ==
    {[DefaultMatchIn EXCEPT !.cls = "match_3D_celltype",
                            !.A = Dataset(ca, <<0, 2>>, <<1, 0>>),
                            !.B = Dataset(cb, <<2, 1>>, <<0, 2>>),
                            !.matching = <<<<0, 0>>, <<1, 1>>>>,
                            !.meta = mt,
                            !.highlight_celltype = <<h0, h1>>,
                            !.highlight_line = hline,
                            !.highlight_cell = (h0 = h1)] :
        ca \in {<<"T", "T">>, <<"T", "B">>},
        cb \in {<<"T", "T">>, <<"T", "B">>, <<"B", "B">>},
        mt \in {"None", "celltype"},
        h0 \in HighlightLists, h1 \in HighlightLists,
        hline \in {[kind |-> "str", val |-> Red],
                   [kind |-> "list", val |-> <<Red, Grey>>]}}

\* A dataset without its 'x' column, and an annotation column that is absent.
BadColumnInputs ==
    {[DefaultMatchIn EXCEPT !.A = [@ EXCEPT !.cols = {"index", "y", "celltype"}]],
     [DefaultMatchIn EXCEPT !.meta = "cluster"]}

MatchInputs ==
    BaseLineInputs \cup ErrorLineInputs \cup SubsampleInputs \cup ScaleInputs
    \cup CelltypeInputs \cup BadColumnInputs

IdleObj == [NewObj EXCEPT !.state = "idle"]

\* The constructor of the class m_in.cls.
MatchConstruct ==
    /\ m_obj.state = "new"
    /\ LET total   == Len(m_in.matching)
           k       == SubsampleCount(total, m_in.subsample_size)
           choices == np_random_choice(total, k)
       IN  IF choices = {}
           THEN m_obj' = (LET o == MatchInit(m_in, <<>>)
                          IN  IF o.state = "failed" THEN o ELSE Failed("ValueError"))
           ELSE \E sel \in choices :
                   m_obj' = SubclassInit(m_in, MatchInit(m_in, sel))
    /\ UNCHANGED <<m_in, m_draw, colorVars, sankeyVars, buildVars>>

\* draw_3D of the constructed object, the caller choosing show_error: the
\* colour map, the scatter calls (the first one raising for a colour
\* matplotlib rejects), then draw_lines.
MatchDraw3D ==
    /\ m_obj.state = "ok"
    /\ ~m_draw.done
    /\ \E show \in BOOLEAN, order \in Orders(m_obj.celltypes) :
          LET show_error == IF m_in.meta # "None" THEN show ELSE FALSE
              color == IF m_in.meta # "None"
                       THEN random_color(Cardinality(m_obj.celltypes), 0, rng)
                       ELSE [kind |-> "None", val |-> <<>>, st |-> rng]
              c_map == IF m_in.meta = "None" THEN <<>>
                       ELSE IF m_in.expr # "None" THEN Reds
                       ELSE ColorMap(order, color)
              bad == /\ m_in.meta # "None"
                     /\ m_in.expr = "None"
                     /\ \E ct \in m_obj.celltypes : ~IsColor(c_map[ct])
              d == DrawLines(m_in, m_obj, show_error, Grey, color.st)
          IN  IF bad
              THEN /\ m_draw' = [NoDraw EXCEPT !.done = TRUE, !.call = "draw_3D",
                                               !.c_map = c_map,
                                               !.show_error = show_error,
                                               !.err = "ValueError"]
                   /\ rng' = color.st
              ELSE IF DatasetsScattered(m_in) < 2
              THEN /\ m_draw' = [NoDraw EXCEPT
                                    !.done = TRUE, !.call = "draw_3D",
                                    !.c_map = c_map,
                                    !.show_error = show_error,
                                    !.scatter = MatchScatter(m_in, order, c_map),
                                    !.err = "KeyError"]
                   /\ rng' = color.st
              ELSE /\ m_draw' = [done |-> TRUE, call |-> "draw_3D",
                                 show_error |-> show_error,
                                 c_map |-> c_map,
                                 scatter |-> MatchScatter(m_in, order, c_map),
                                 lines |-> d.out.lines, markers |-> d.out.markers,
                                 err |-> d.out.err]
                   /\ rng' = d.st
    /\ UNCHANGED <<m_in, m_obj, rc_calls, sankeyVars, buildVars>>

\* draw_lines(ax, show_error, default_color) of the constructed object called
\* directly, the caller choosing show_error: no colour map, no scatter of
\* the datasets.
MatchDrawLines ==
    /\ m_obj.state = "ok"
    /\ ~m_draw.done
    /\ \E show \in BOOLEAN :
          LET d == DrawLines(m_in, m_obj, show, Grey, rng)
          IN  /\ m_draw' = [NoDraw EXCEPT !.done = TRUE, !.call = "draw_lines",
                                          !.show_error = show,
                                          !.lines = d.out.lines,
                                          !.markers = d.out.markers,
                                          !.err = d.out.err]
              /\ rng' = d.st
    /\ UNCHANGED <<m_in, m_obj, rc_calls, sankeyVars, buildVars>>

(***************************************************************************)
(* build_3D.                                                               *)
(*                                                                         *)
(* A layer (one AnnData) is [loc, anno]: the rows <<x, y>> of              *)
(* obsm[spatial_key], a 2-D ndarray, and the categories of obs[anno_key].  *)
(* A mapping is the sequence of the columns of its 2 x K array, each       *)
(* column <<query cell in layer j+1, reference cell in layer j>>.          *)
(* mapping_rank_list is [none, val]: val[j][q] is the rank list of query   *)
(* cell q under mapping j.                                                 *)
(***************************************************************************)
MaxLayers == 4
MaxRange == 3
DefaultSmoothRange == 20

BuildFailed(e, at) ==
    [state |-> "failed", err |-> e, at |-> at, loc_list |-> <<>>, anno_list |-> <<>>,
     celltypes |-> {}, has_range |-> FALSE]

BuildNew == [BuildFailed("None", "None") EXCEPT !.state = "new"]

\* The length test comparing the two lengths themselves.
MappingsConsistent_same(inp) == Len(inp.mappings) = Len(inp.adatas)

\* len(mappings) == len(adatas) - 1
MappingsConsistent(inp) == Len(inp.mappings) = Len(inp.adatas) - 1

\* build_3D.__init__: the attributes of the object, or the exception and
\* the statement that raised it.  In
\* the body the name `range` is the int parameter, so `for i in range(2)`
\* of the scaling loop calls an int and raises TypeError in the first
\* iteration over adatas, before any layer is appended.
BuildInit(inp) ==
    IF ~MappingsConsistent(inp)
    THEN BuildFailed("AssertionError", "len(mappings)")
    ELSE IF inp.smooth /\ inp.mapping_rank_list.none
    THEN BuildFailed("AssertionError", "mapping_rank_list")
    ELSE IF inp.scale_coordinate /\ Len(inp.adatas) > 0
    THEN BuildFailed("TypeError", "range(2)")
    ELSE [state |-> "ok", err |-> "None", at |-> "None",
          loc_list |-> [k \in 1..Len(inp.adatas) |-> inp.adatas[k].loc],
          anno_list |-> [k \in 1..Len(inp.adatas) |-> inp.adatas[k].anno],
          celltypes |-> UNION {SeqToSet(inp.adatas[k].anno) : k \in 1..Len(inp.adatas)},
          has_range |-> inp.smooth]

\* The squared Euclidean distance of two rows.
Dist2(p, q) == (p[1] - q[1]) * (p[1] - q[1]) + (p[2] - q[2]) * (p[2] - q[2])

\* np.argmin over the candidates: the first position of the least distance.
ArgMin(point, cands) ==
    CHOOSE i \in 0..(Len(cands) - 1) :
        /\ \A j \in 0..(Len(cands) - 1) : Dist2(point, At(cands, i)) <= Dist2(point, At(cands, j))
        /\ \A j \in 0..(i - 1) : Dist2(point, At(cands, j)) > Dist2(point, At(cands, i))

\* build_3D.smooth_mapping(query, ref_list, layer, range): [err, best].
\* The row loc_list[layer][query,:] is 1-D, which euclidean_distances
\* rejects with ValueError; x_is_2d tells whether the first argument is 2-D.
smooth_mapping(loc_list, query, ref_list, layer, range, x_is_2d) ==
    IF ~(1 <= range /\ range <= Len(ref_list))
    THEN [err |-> "AssertionError", best |-> -1]
    ELSE LET refs == SubSeq(ref_list, 1, range)
             X    == At(loc_list, layer)
             Y    == At(loc_list, layer + 1)
         IN  IF query >= Len(X) \/ \E k \in 1..Len(refs) : refs[k] >= Len(Y)
             THEN [err |-> "IndexError", best |-> -1]
             ELSE IF ~x_is_2d THEN [err |-> "ValueError", best |-> -1]
             ELSE [err |-> "None",
                   best |-> At(refs, ArgMin(At(X, query),
                                   [k \in 1..Len(refs) |-> At(Y, refs[k])]))]

\* The reference cell of column k of the sampled mapping j: the call
\* self.smooth_mapping(cell1_index, mapping_rank, j) leaves `range` at its
\* default, else the mapped reference cell.
RefCell(inp, obj, j, col) ==
    IF inp.smooth
    THEN smooth_mapping(obj.loc_list, At(col, 0),
                        At(At(inp.mapping_rank_list.val, j), At(col, 0)),
                        j, DefaultSmoothRange, FALSE)
    ELSE [err |-> "None", best |-> At(col, 1)]

\* The loop `for k in range(mapping.shape[1])` from column k on; sel[k] is
\* the column of the mapping that column k of the sampled array was taken
\* from, kept with the line it produces.
RECURSIVE BuildLines(_, _, _, _, _, _, _)
BuildLines(inp, obj, j, sampled, sel, k, acc) ==
    IF k >= Len(sampled) THEN acc
    ELSE LET col == At(sampled, k)
             r   == RefCell(inp, obj, j, col)
         IN  IF r.err # "None" THEN [acc EXCEPT !.err = r.err]
             ELSE IF r.best >= Len(At(obj.loc_list, j))
                     \/ At(col, 0) >= Len(At(obj.loc_list, j + 1))
             THEN [acc EXCEPT !.err = "IndexError"]
             ELSE BuildLines(inp, obj, j, sampled, sel, k + 1,
                      [acc EXCEPT !.lines = Append(@,
                          [j |-> j, col |-> At(sel, k),
                           query |-> At(col, 0), ref |-> r.best,
                           z0 |-> inp.height * j, z1 |-> inp.height * (j + 1)])])

\* if i==0 and 0<j<len(self.mappings)-1: continue
SkipLayer(i, j, n_mappings) == i = 0 /\ 0 < j /\ j < n_mappings - 1

\* The layers scatter-plotted while processing mapping j: [layer, z] for
\* each of i = 0, 1 that is not skipped.
ScatterPasses(inp, j) ==
    LET pass(i) == [layer |-> j + i, z |-> inp.height * (j + i), j |-> j]
        first  == IF SkipLayer(0, j, Len(inp.mappings)) THEN <<>> ELSE <<pass(0)>>
        second == IF SkipLayer(1, j, Len(inp.mappings)) THEN <<>> ELSE <<pass(1)>>
    IN  first \o second

NoBuildDraw ==
    [pc |-> "idle", j |-> 0, fig |-> FALSE, c_map |-> <<>>, scattered |-> <<>>,
     sampled |-> <<>>, sel |-> <<>>, lines |-> <<>>, err |-> "None"]

Layer2 == [loc |-> <<<<0, 0>>, <<2, 1>>>>, anno |-> <<"T", "B">>]
Layer2b == [loc |-> <<<<2, 2>>, <<0, 1>>>>, anno |-> <<"T", "T">>]

LayerStack(n) == [k \in 1..n |-> IF k % 2 = 1 THEN Layer2 ELSE Layer2b]

MappingChoices == {<<<<0, 0>>, <<1, 1>>>>, <<<<1, 0>>>>}

NoRankList == [none |-> TRUE, val |-> <<>>]

\* Rank lists for m mappings over two query cells: of the given length,
\* the candidates alternating from `first`.
RankRows(m, len, first) ==
    [none |-> FALSE,
     val |-> [j \in 1..m |->
                [q \in 1..2 |-> [k \in 1..len |-> (first + q + k) % 2]]]]

\* Layer stacks with matching and mismatching numbers of mappings, every
\* subsample size, with and without scaling.
PlainBuildInputs ==
    {[adatas |-> LayerStack(n), mappings |-> [k \in 1..m |-> mp],
      subsample_size |-> s, scale_coordinate |-> sc, smooth |-> FALSE,
      range |-> 10, mapping_rank_list |-> NoRankList, height |-> h] :
        n \in 1..MaxLayers, m \in 0..MaxLayers, mp \in MappingChoices,
        s \in 0..MaxSub, sc \in BOOLEAN, h \in 1..2}

\* Smoothing with a cutoff inside and outside the rank list, with rank
\* lists shorter and no shorter than smooth_mapping's default, and without
\* a rank list.
SmoothBuildInputs ==
    UNION {{[adatas |-> LayerStack(n), mappings |-> [k \in 1..(n - 1) |-> mp],
             subsample_size |-> 1, scale_coordinate |-> FALSE, smooth |-> TRUE,
             range |-> r, mapping_rank_list |-> rl, height |-> 1] :
               mp \in MappingChoices, r \in 0..MaxRange,
               rl \in {NoRankList} \cup {RankRows(n - 1, len, f) :
                          len \in {2, DefaultSmoothRange}, f \in 0..1}}
           : n \in 2..3}

\* Layer stacks whose cells all have the one category T.
SingleCategoryInputs ==
    {[adatas |-> [k \in 1..n |-> Layer2b], mappings |-> [k \in 1..(n - 1) |-> mp],
      subsample_size |-> 1, scale_coordinate |-> FALSE, smooth |-> FALSE,
      range |-> 10, mapping_rank_list |-> NoRankList, height |-> 1] :
        n \in 2..3, mp \in MappingChoices}

BuildInputs == PlainBuildInputs \cup SmoothBuildInputs \cup SingleCategoryInputs

IdleBuildIn ==
    [adatas |-> <<>>, mappings |-> <<>>, subsample_size |-> 0,
     scale_coordinate |-> FALSE, smooth |-> FALSE, range |-> 10,
     mapping_rank_list |-> NoRankList, height |-> 1]

IdleBuildObj == [BuildNew EXCEPT !.state = "idle"]

\* build_3D(adatas, mappings, ...)
BuildConstruct ==
    /\ b_obj.state = "new"
    /\ b_obj' = BuildInit(b_in)
    /\ UNCHANGED <<b_in, b_draw, colorVars, sankeyVars, matchVars>>

\* draw_3D up to the loop over the mappings: the figure and the colour map.
Draw3DBegin ==
    /\ b_obj.state = "ok"
    /\ b_draw.pc = "idle"
    /\ \E order \in Orders(b_obj.celltypes) :
          LET color == random_color(Cardinality(b_obj.celltypes), 0, rng)
          IN  /\ b_draw' = [b_draw EXCEPT
                     !.fig = TRUE,
                     !.c_map = ColorMap(order, color),
                     !.pc = IF Len(b_in.mappings) = 0 THEN "done" ELSE "scatter"]
              /\ rng' = color.st
    /\ UNCHANGED <<b_in, b_obj, rc_calls, sankeyVars, matchVars>>

\* The scatter loop of mapping j; a colour matplotlib rejects ends the call.
Draw3DScatter ==
    /\ b_draw.pc = "scatter"
    /\ IF \E ct \in b_obj.celltypes : ~IsColor(b_draw.c_map[ct])
       THEN b_draw' = [b_draw EXCEPT !.pc = "error", !.err = "ValueError"]
       ELSE b_draw' = [b_draw EXCEPT
                !.scattered = @ \o ScatterPasses(b_in, b_draw.j),
                !.pc = "sample"]
    /\ UNCHANGED <<b_in, b_obj, colorVars, sankeyVars, matchVars>>

\* mapping[:, np.random.choice(mapping.shape[1], self.subsample_size,
\* replace=False)] for mapping j.
Draw3DSample ==
    /\ b_draw.pc = "sample"
    /\ LET mapping == At(b_in.mappings, b_draw.j)
           choices == np_random_choice(Len(mapping), b_in.subsample_size)
       IN  IF choices = {}
           THEN b_draw' = [b_draw EXCEPT !.pc = "error", !.err = "ValueError"]
           ELSE \E sel \in choices :
                   b_draw' = [b_draw EXCEPT !.sel = sel,
                                            !.sampled = TakeColumns(mapping, sel),
                                            !.pc = "lines"]
    /\ UNCHANGED <<b_in, b_obj, colorVars, sankeyVars, matchVars>>

\* The line loop of mapping j, then the next mapping or the end of the call.
Draw3DLines ==
    /\ b_draw.pc = "lines"
    /\ LET r == BuildLines(b_in, b_obj, b_draw.j, b_draw.sampled, b_draw.sel, 0,
                           [lines |-> b_draw.lines, err |-> "None"])
       IN  b_draw' =
              IF r.err # "None"
              THEN [b_draw EXCEPT !.lines = r.lines, !.pc = "error", !.err = r.err]
              ELSE IF b_draw.j + 1 < Len(b_in.mappings)
              THEN [b_draw EXCEPT !.lines = r.lines, !.pc = "scatter", !.j = @ + 1]
              ELSE [b_draw EXCEPT !.lines = r.lines, !.pc = "done"]
    /\ UNCHANGED <<b_in, b_obj, colorVars, sankeyVars, matchVars>>

(***************************************************************************)
(* Specifications, one per component: a component that takes no part       *)
(* starts idle and stays so.                                               *)
(***************************************************************************)
InitColor ==
    /\ rng \in RngStates
    /\ rc_calls = <<>>
    /\ sk_in = IdleSankeyIn /\ sk_out = NoSankey
    /\ m_in = DefaultMatchIn /\ m_obj = IdleObj /\ m_draw = NoDraw
    /\ b_in = IdleBuildIn /\ b_obj = IdleBuildObj /\ b_draw = NoBuildDraw

NextColor == CallRandomColor

SpecColor == InitColor /\ [][NextColor]_vars

InitSankey ==
    /\ rng = 0
    /\ rc_calls = <<>>
    /\ sk_in \in SankeyInputs /\ sk_out = NoSankey
    /\ m_in = DefaultMatchIn /\ m_obj = IdleObj /\ m_draw = NoDraw
    /\ b_in = IdleBuildIn /\ b_obj = IdleBuildObj /\ b_draw = NoBuildDraw

NextSankey == CallSankey \/ CallMultiSankey

SpecSankey == InitSankey /\ [][NextSankey]_vars

InitMatch ==
    /\ rng = 0
    /\ rc_calls = <<>>
    /\ sk_in = IdleSankeyIn /\ sk_out = NoSankey
    /\ m_in \in MatchInputs /\ m_obj = NewObj /\ m_draw = NoDraw
    /\ b_in = IdleBuildIn /\ b_obj = IdleBuildObj /\ b_draw = NoBuildDraw

NextMatch == MatchConstruct \/ MatchDraw3D \/ MatchDrawLines

SpecMatch == InitMatch /\ [][NextMatch]_vars

InitBuild ==
    /\ rng = 0
    /\ rc_calls = <<>>
    /\ sk_in = IdleSankeyIn /\ sk_out = NoSankey
    /\ m_in = DefaultMatchIn /\ m_obj = IdleObj /\ m_draw = NoDraw
    /\ b_in \in BuildInputs /\ b_obj = BuildNew /\ b_draw = NoBuildDraw

NextBuild ==
    \/ BuildConstruct
    \/ Draw3DBegin
    \/ Draw3DScatter
    \/ Draw3DSample
    \/ Draw3DLines

SpecBuild == InitBuild /\ [][NextBuild]_vars

(***************************************************************************)
(* Properties.                                                             *)
(***************************************************************************)

\* The colour strings a random_color call returned: the one str, or the
\* elements of the list.
ColourStrings(call) == IF call.kind = "str" THEN <<call.out>> ELSE call.out

\* C7: for every seed s and every n >= 1, random_color(n, s) returns exactly
\* n colour strings, each '#' followed by 6 hexadecimal digits, and two
\* calls with the same n and s return the same result whatever state the
\* process-wide generator was in before each call.
C7_RandomColorDeterministic ==
    \A i \in 1..Len(rc_calls) :
        rc_calls[i].n >= 1 =>
            /\ Len(ColourStrings(rc_calls[i])) = rc_calls[i].n
            /\ \A k \in 1..rc_calls[i].n : IsHexColor(ColourStrings(rc_calls[i])[k])
            /\ \A j \in 1..Len(rc_calls) :
                  (rc_calls[j].n = rc_calls[i].n /\ rc_calls[j].seed = rc_calls[i].seed)
                      => rc_calls[j].out = rc_calls[i].out

\* Two calls with the same n > 1 and the same seed, made with the generator
\* in different states.
C7_Witness ==
    \E i, j \in 1..Len(rc_calls) :
        /\ i # j
        /\ rc_calls[i].n > 1
        /\ rc_calls[i].n = rc_calls[j].n
        /\ rc_calls[i].seed = rc_calls[j].seed
        /\ rc_calls[i].before # rc_calls[j].before

\* The cells of a table row by row, and of a chain of tables in order.
TableCells(table) ==
    [k \in 1..(NRows(table) * NCols(table)) |->
        At(At(table.cells, (k - 1) \div NCols(table)), (k - 1) % NCols(table))]

RECURSIVE ChainCells(_, _)
ChainCells(tables, t) ==
    IF t > Len(tables) THEN <<>>
    ELSE TableCells(tables[t]) \o ChainCells(tables, t + 1)

\* The integer counts above 10 among the cells, in order.
CountsAboveTen(cells) ==
    LET kept == SelectSeq(cells, LAMBDA v : v \div 2 > 10)
    IN  [k \in 1..Len(kept) |-> kept[k] \div 2]

\* C6: in Sankey and multi_Sankey a cell of a transition table produces a
\* link if and only if its integer count is strictly greater than 10 (a
\* count of exactly 10 produces none); each such cell produces exactly one
\* link whose value is that count, so source, target and value always have
\* equal length.
C6_LinkThreshold ==
    sk_out.done =>
        /\ sk_out.value = CountsAboveTen(ChainCells(sk_in.tables, 1))
        /\ Len(sk_out.source) = Len(sk_out.value)
        /\ Len(sk_out.target) = Len(sk_out.value)

\* A finished call whose tables hold a count of exactly 10, a count above
\* 10 and a count below 10.
C6_Witness ==
    /\ sk_out.done
    /\ \E v \in SeqToSet(ChainCells(sk_in.tables, 1)) : v \div 2 = 10
    /\ \E v \in SeqToSet(ChainCells(sk_in.tables, 1)) : v \div 2 > 10
    /\ \E v \in SeqToSet(ChainCells(sk_in.tables, 1)) : v \div 2 < 10
    /\ Len(sk_out.value) >= 1

\* C4: after match_3D_multi construction (and its subclasses) the stored
\* matching has exactly min(subsample_size, total_pairs) columns, every
\* stored column is a column of the input matching, and no input column
\* index is selected more than once.
C4_Subsample ==
    m_obj.state = "ok" =>
        /\ Len(m_obj.matching) = Min2(m_in.subsample_size, Len(m_in.matching))
        /\ Len(m_obj.sel) = Len(m_obj.matching)
        /\ \A k \in 1..Len(m_obj.sel) :
              /\ m_obj.sel[k] \in 0..(Len(m_in.matching) - 1)
              /\ m_obj.matching[k] = At(m_in.matching, m_obj.sel[k])
        /\ \A k, l \in 1..Len(m_obj.sel) : k # l => m_obj.sel[k] # m_obj.sel[l]

\* A subclass object built from more pairs than subsample_size, at least
\* one of them kept.
C4_Witness ==
    /\ m_obj.state = "ok"
    /\ m_in.cls = "match_3D_multi_error"
    /\ Len(m_in.matching) > m_in.subsample_size
    /\ Len(m_obj.matching) >= 1

\* C8: build_3D construction fails with an assertion error, before storing
\* any layer, whenever the number of mappings differs from the number of
\* datasets minus one, and never fails on that check when the two are
\* consistent.
C8_MappingCountCheck ==
    b_obj.state \in {"ok", "failed"} =>
        IF Len(b_in.mappings) # Len(b_in.adatas) - 1
        THEN /\ b_obj.state = "failed"
             /\ b_obj.err = "AssertionError"
             /\ b_obj.at = "len(mappings)"
             /\ b_obj.loc_list = <<>>
        ELSE b_obj.at # "len(mappings)"

\* Construction from 3 layers and 1 mapping has failed.
C8_Witness ==
    /\ b_obj.state = "failed"
    /\ Len(b_in.adatas) = 3
    /\ Len(b_in.mappings) = 1

\* The highlighted categories of both lists.
Highlighted(inp) ==
    SeqToSet(At(inp.highlight_celltype, 0)) \cup SeqToSet(At(inp.highlight_celltype, 1))

\* C9: match_3D_celltype construction fails whenever either highlight list
\* contains a category that is not in the union of the categories observed
\* in dataset_A and dataset_B, and succeeds on that check when both
\* highlight lists are subsets of that union.  (The datasets of these calls
\* hold every required column, so the highlight check is the only statement
\* of the constructor that can fail.)
C9_HighlightCheck ==
    (m_in.cls = "match_3D_celltype" /\ m_obj.state \in {"ok", "failed"}) =>
        LET observed == Categories(m_in.A) \cup Categories(m_in.B)
        IN  IF ~(Highlighted(m_in) \subseteq observed)
            THEN m_obj.state = "failed"
            ELSE m_obj.state = "ok"

\* What the constructor keeps of that property: with the annotation column
\* named, construction fails with the assertion exactly when a highlighted
\* category is outside the observed union; with meta left unset it fails
\* with AttributeError whatever the highlight lists are.
HighlightCheckByMeta ==
    (m_in.cls = "match_3D_celltype" /\ m_obj.state \in {"ok", "failed"}) =>
        LET observed == Categories(m_in.A) \cup Categories(m_in.B)
        IN  IF m_in.meta = "None"
            THEN m_obj.state = "failed" /\ m_obj.err = "AttributeError"
            ELSE IF ~(Highlighted(m_in) \subseteq observed)
            THEN m_obj.state = "failed" /\ m_obj.err = "AssertionError"
            ELSE m_obj.state = "ok"

\* What a mode of match_3D_multi_error asks of a pair: high_* a reliable
\* pair and low_* an unreliable one, *_true equal endpoint categories and
\* *_false different ones.
ModeSelects(mode, reliable, same) ==
    /\ mode \in {"high_true", "high_false"} => reliable
    /\ mode \in {"low_true", "low_false"} => ~reliable
    /\ mode \in {"high_true", "low_true"} => same
    /\ mode \in {"high_false", "low_false"} => ~same

\* The reliability flag the caller gave for the pair at position i of the
\* stored matching, and whether its endpoints have the same category.
PairReliable(i) == At(m_in.reliability.val, m_obj.sel[i + 1])
PairSame(i) ==
    CatOf(m_in.B, At(At(m_obj.matching, i), 0))
        = CatOf(m_in.A, At(At(m_obj.matching, i), 1))

LineDrawn(i) == \E k \in 1..Len(m_draw.lines) : m_draw.lines[k].i = i

\* C1: in match_3D_multi_error.draw_lines with a reliability flag supplied
\* for every sampled pair, a sampled pair is drawn if and only if it
\* matches the mode (high_*: reliable, low_*: unreliable, *_true: equal
\* endpoint categories, *_false: different ones), in each of the four modes.
C1_ErrorModeFilter ==
    (/\ m_in.cls = "match_3D_multi_error"
     /\ m_draw.done
     /\ m_in.reliability.kind # "None") =>
        /\ m_draw.err = "None"
        /\ \A i \in 0..(Len(m_obj.matching) - 1) :
              LineDrawn(i) <=> ModeSelects(m_in.mode, PairReliable(i), PairSame(i))

\* The four colours of the base policy, by (categories equal, reliable).
TaxonomyColor(same, reliable) ==
    IF same THEN (IF reliable THEN ColorRight ELSE ColorLowRight)
    ELSE (IF reliable THEN ColorHighWrong ELSE ColorWrong)

\* C5: in match_3D_multi.draw_lines with an annotation column, a
\* reliability value for every sampled pair and show_error enabled, every
\* sampled pair is drawn and its line colour is determined solely by
\* (endpoint categories equal?, pair reliable?), four pairwise distinct
\* colours for the four combinations; when show_error is disabled or no
\* annotation is set, every line gets the default colour.
C5_BaseLineColours ==
    (/\ m_in.cls = "match_3D_multi"
     /\ m_draw.done
     /\ m_in.expr = "None"
     /\ m_in.reliability.kind # "None") =>
        /\ m_draw.err = "None"
        /\ Len(m_draw.lines) = Len(m_obj.matching)
        /\ \A i \in 0..(Len(m_obj.matching) - 1) :
              m_draw.lines[i + 1].color =
                  IF m_in.meta # "None" /\ m_draw.show_error
                  THEN TaxonomyColor(PairSame(i), PairReliable(i))
                  ELSE Grey
        /\ Cardinality({TaxonomyColor(a, b) : a \in BOOLEAN, b \in BOOLEAN}) = 4

\* The first K entries of the rank list of query cell q under mapping j.
TopK(j, q) == SubSeq(At(At(b_in.mapping_rank_list.val, j), q), 1, b_in.range)

\* Whether cell c of layer j is, among the first K candidates, one nearest
\* to query cell q of layer j+1.
NearestOfTopK(j, q, c) ==
    LET point == At(At(b_obj.loc_list, j + 1), q)
        refs  == At(b_obj.loc_list, j)
    IN  /\ InSeq(c, TopK(j, q))
        /\ \A k \in 1..Len(TopK(j, q)) :
              Dist2(point, At(refs, c)) <= Dist2(point, At(refs, TopK(j, q)[k]))

\* The cutoff K given to the constructor lies within every rank list.
RangeWithinRankLists ==
    /\ ~b_in.mapping_rank_list.none
    /\ \A j \in 1..Len(b_in.mapping_rank_list.val) :
          \A q \in 1..Len(b_in.mapping_rank_list.val[j]) :
              1 <= b_in.range /\ b_in.range <= Len(b_in.mapping_rank_list.val[j][q])

\* C2: when build_3D.draw_3D runs with smoothing enabled, the reference
\* endpoint of each sampled pair is the candidate spatially nearest to the
\* query cell among the first K entries of that query's rank list, K being
\* the range given to the constructor, the query's coordinate taken from
\* layer j+1 and the candidates' from layer j.
C2_SmoothNearest ==
    (/\ b_in.smooth
     /\ b_obj.state = "ok"
     /\ RangeWithinRankLists
     /\ b_draw.pc \in {"done", "error"}) =>
        /\ b_draw.err = "None"
        /\ Len(b_draw.lines) = Len(b_in.mappings) * b_in.subsample_size
        /\ \A k \in 1..Len(b_draw.lines) :
              NearestOfTopK(b_draw.lines[k].j, b_draw.lines[k].query,
                            b_draw.lines[k].ref)

\* Every layer given to the constructor has non-constant x and y.
NonConstantLayers ==
    \A k \in 1..Len(b_in.adatas) :
        \A axis \in 1..2 :
            \E p, q \in 1..Len(b_in.adatas[k].loc) :
                b_in.adatas[k].loc[p][axis] # b_in.adatas[k].loc[q][axis]

\* The stored layer has minimum 0 and maximum 1 on both axes.
UnitRange(loc) ==
    \A axis \in 1..2 :
        /\ \E p \in 1..Len(loc) : loc[p][axis] = 0
        /\ \E p \in 1..Len(loc) : loc[p][axis] = 1
        /\ \A p \in 1..Len(loc) : 0 <= loc[p][axis] /\ loc[p][axis] <= 1

\* C3 (build_3D): construction with coordinate scaling enabled on datasets
\* whose x and y ranges are non-constant completes successfully, and
\* afterwards every stored layer has minimum 0 and maximum 1 on each of its
\* two spatial axes.
C3_ScalingCompletes ==
    (/\ b_obj.state \in {"ok", "failed"}
     /\ b_in.scale_coordinate
     /\ Len(b_in.mappings) = Len(b_in.adatas) - 1
     /\ (b_in.smooth => ~b_in.mapping_rank_list.none)
     /\ NonConstantLayers) =>
        /\ b_obj.state = "ok"
        /\ \A k \in 1..Len(b_obj.loc_list) : UnitRange(b_obj.loc_list[k])

\* The match_3D_multi half of the scaling property, which the constructor
\* keeps: built with scaling (or a rotation, which forces it) from datasets
\* whose x and y are non-constant, both stored datasets have minimum 0 and
\* maximum 1 on each axis, flipped or not.
MatchScalingUnitRange ==
    (/\ m_obj.state = "ok"
     /\ (m_in.scale_coordinate \/ ~m_in.rotate.none)
     /\ \A ax \in {"x", "y"} :
           /\ ColMin(m_in.A.rows, ax) # ColMax(m_in.A.rows, ax)
           /\ ColMin(m_in.B.rows, ax) # ColMax(m_in.B.rows, ax)) =>
        \A ds \in {m_obj.dataset_A, m_obj.dataset_B} :
            \A ax \in {"x", "y"} :
                /\ \E k \in 1..Len(ds) : IsZero(ds[k][ax])
                /\ \E k \in 1..Len(ds) : IsOne(ds[k][ax])
                /\ \A k \in 1..Len(ds) :
                      ds[k][ax].d > 0 /\ 0 <= ds[k][ax].n /\ ds[k][ax].n <= ds[k][ax].d

\* The lines drawn for mapping j during the call.
LinesOf(j) == {k \in 1..Len(b_draw.lines) : b_draw.lines[k].j = j}

\* C11: in build_3D.draw_3D, for every mapping the number of connecting
\* lines drawn equals min(subsample_size, number of pairs in that mapping),
\* each from a distinct pair column; in particular the render completes
\* when a mapping has fewer pairs than subsample_size.  (Stated without
\* smoothing and with two or more categories, so that neither the choice of
\* the reference cell nor the colour map takes part.)
C11_LineCount ==
    (/\ b_obj.state = "ok"
     /\ ~b_in.smooth
     /\ Cardinality(b_obj.celltypes) >= 2
     /\ b_draw.pc \in {"done", "error"}) =>
        /\ b_draw.pc = "done"
        /\ \A j \in 0..(Len(b_in.mappings) - 1) :
              /\ Cardinality(LinesOf(j))
                    = Min2(b_in.subsample_size, Len(At(b_in.mappings, j)))
              /\ \A k, l \in LinesOf(j) :
                    k # l => b_draw.lines[k].col # b_draw.lines[l].col
              /\ \A k \in LinesOf(j) :
                    b_draw.lines[k].col \in 0..(Len(At(b_in.mappings, j)) - 1)

\* The cutoff K given to the constructor lies outside [1, length] of some
\* rank list.
RangeOutsideRankLists ==
    /\ ~b_in.mapping_rank_list.none
    /\ \E j \in 1..Len(b_in.mapping_rank_list.val) :
          \E q \in 1..Len(b_in.mapping_rank_list.val[j]) :
              ~(1 <= b_in.range /\ b_in.range <= Len(b_in.mapping_rank_list.val[j][q]))

\* C12: when smoothing is enabled and the rank cutoff K given to build_3D
\* is outside [1, length of the candidate rank list], the failure occurs at
\* construction time: no build_3D object is produced and no draw_3D step
\* (figure creation, scatter or line drawing) ever runs with that K.
C12_RangeCheckedAtConstruction ==
    (/\ b_in.smooth
     /\ RangeOutsideRankLists
     /\ b_obj.state # "new") =>
        /\ b_obj.state = "failed"
        /\ ~b_draw.fig
        /\ b_draw.scattered = <<>>
        /\ b_draw.lines = <<>>

\* The cells of table t of the call row by row, each with its place
\* [t, r, c] and its value, and those of the chain from table t on.
CellRefs(t) ==
    LET table == sk_in.tables[t]
    IN  [k \in 1..(NRows(table) * NCols(table)) |->
            [t |-> t,
             r |-> (k - 1) \div NCols(table),
             c |-> (k - 1) % NCols(table),
             v |-> At(At(table.cells, (k - 1) \div NCols(table)),
                      (k - 1) % NCols(table))]]

RECURSIVE ChainCellRefs(_)
ChainCellRefs(t) ==
    IF t > Len(sk_in.tables) THEN <<>>
    ELSE CellRefs(t) \o ChainCellRefs(t + 1)

\* The cells that produce a link, in the order of their links.
LinkedCellRefs == SelectSeq(ChainCellRefs(1), LAMBDA x : x.v \div 2 > 10)

\* The prefixed label of the row category and of the column category of a
\* cell: in Sankey the rows carry prefix[1] and the columns prefix[0]; in
\* multi_Sankey the columns of table t carry the day of time point t and
\* the rows that of time point t+1.
RowLabel(x) ==
    At(sk_in.tables[x.t].index, x.r) \o "_" \o
        (IF sk_in.fn = "Sankey" THEN At(sk_in.prefix, 1)
         ELSE FloatStr(sk_in.day + 10 * x.t))

ColLabel(x) ==
    At(sk_in.tables[x.t].columns, x.c) \o "_" \o
        (IF sk_in.fn = "Sankey" THEN At(sk_in.prefix, 0)
         ELSE FloatStr(sk_in.day + 10 * (x.t - 1)))

\* The positions of the node label list that carry label l.
NodesLabelled(l) == {i \in 0..(Len(sk_out.label) - 1) : At(sk_out.label, i) = l}

\* Index i is the last position of the node label list that carries l.
IsLastNode(i, l) == i \in NodesLabelled(l) /\ \A n \in NodesLabelled(l) : n <= i

\* C13 as stated: every link created from the cell at (row r, column c)
\* has the node of row category r as its source and the node of column
\* category c as its target, every source/target index being a valid
\* position in the node label list whose label is that category's prefixed
\* label.
C13_SourceIsRow ==
    sk_out.done =>
        /\ Len(sk_out.source) = Len(LinkedCellRefs)
        /\ Len(sk_out.target) = Len(LinkedCellRefs)
        /\ \A k \in 1..Len(LinkedCellRefs) :
              /\ sk_out.source[k] \in NodesLabelled(RowLabel(LinkedCellRefs[k]))
              /\ sk_out.target[k] \in NodesLabelled(ColLabel(LinkedCellRefs[k]))

\* C13 amended: every link created from the cell at (row r, column c) has
\* the node of column (reference) category c as its source and the node of
\* row (query) category r as its target; each index is a valid position in
\* the node label list, namely the last position whose label is that
\* category's prefixed label.
C13_SourceIsColumn ==
    sk_out.done =>
        /\ Len(sk_out.source) = Len(LinkedCellRefs)
        /\ Len(sk_out.target) = Len(LinkedCellRefs)
        /\ \A k \in 1..Len(LinkedCellRefs) :
              /\ IsLastNode(sk_out.source[k], ColLabel(LinkedCellRefs[k]))
              /\ IsLastNode(sk_out.target[k], RowLabel(LinkedCellRefs[k]))

\* A finished call with a link from a cell whose row and column labels
\* differ, so that the direction of the link shows.
C13_Witness ==
    /\ sk_out.done
    /\ \E k \in 1..Len(LinkedCellRefs) :
          /\ RowLabel(LinkedCellRefs[k]) # ColLabel(LinkedCellRefs[k])
          /\ LinkedCellRefs[k].r # LinkedCellRefs[k].c
          /\ k <= Len(sk_out.source)

\* The list that indexes the palette of match_3D_celltype.draw_lines (the
\* longer highlight list), and whether the call generates its own palette.
PaletteIndex ==
    IF Len(At(m_in.highlight_celltype, 0)) >= Len(At(m_in.highlight_celltype, 1))
    THEN At(m_in.highlight_celltype, 0)
    ELSE At(m_in.highlight_celltype, 1)

PaletteGenerated ==
    /\ m_in.cls = "match_3D_celltype"
    /\ m_draw.done
    /\ \/ m_draw.call = "draw_lines"
       \/ m_draw.scatter # <<>> /\ DatasetsScattered(m_in) = 2
    /\ ~(m_in.highlight_line.kind = "list"
         /\ Len(m_in.highlight_line.val) >= Len(PaletteIndex))

\* The colour map build_3D.draw_3D built assigns every category a complete
\* hex colour string.
BuildColourMapHex ==
    (b_draw.fig /\ Cardinality(b_obj.celltypes) >= 1) =>
        \A ct \in b_obj.celltypes : IsHexColor(b_draw.c_map[ct])

\* The same for match_3D_multi.draw_3D without an expression column.
MatchColourMapHex ==
    (/\ m_draw.done
     /\ m_draw.call = "draw_3D"
     /\ m_in.meta # "None"
     /\ m_in.expr = "None"
     /\ Cardinality(m_obj.celltypes) >= 1) =>
        \A ct \in m_obj.celltypes : IsHexColor(m_draw.c_map[ct])

\* The same for the palette match_3D_celltype.draw_lines generates for its
\* k >= 1 highlighted categories.
PaletteHex ==
    (PaletteGenerated /\ Len(PaletteIndex) >= 1) =>
        \A i \in 0..(Len(PaletteIndex) - 1) :
            IsHexColor(ColorAt(CelltypePalette(m_in, 0), i))

\* C14: in every render call that colours by category (build_3D.draw_3D,
\* match_3D_multi.draw_3D without an expression column, and
\* match_3D_celltype.draw_lines when it generates its own palette), the
\* colour map built for k >= 1 categories assigns each category a complete
\* hex colour string ('#' followed by 6 hex digits), including when k = 1.
C14_ColourMapComplete ==
    /\ BuildColourMapHex
    /\ MatchColourMapHex
    /\ PaletteHex

\* The scatter passes over layer L during the call.
PassesOver(L) == {k \in 1..Len(b_draw.scattered) : b_draw.scattered[k].layer = L}

\* C10: during one build_3D.draw_3D call over N >= 2 layers, every layer
\* 0..N-1 is scatter-plotted exactly once, at z = height * layer index, for
\* every mapping j including the last.
C10_EachLayerOnce ==
    (b_draw.pc = "done" /\ Len(b_in.adatas) >= 2) =>
        /\ \A L \in 0..(Len(b_in.adatas) - 1) : Cardinality(PassesOver(L)) = 1
        /\ \A k \in 1..Len(b_draw.scattered) :
              b_draw.scattered[k].z = b_in.height * b_draw.scattered[k].layer

====
